---- MODULE Spec2Model ----
(***************************************************************************)
(* Model of the merge-based SAT solver of pysrc/instance.py:               *)
(* Certificate (insert, get, is_compatible, merge), _Clause (apply,        *)
(* solve) and Instance (apply, _merge, solve, num_solutions).              *)
(*                                                                         *)
(* A Certificate is modelled by its `assignments` dict: a function from    *)
(* the bound variables to "true"/"false".  Its num_vars field only feeds   *)
(* __str__/__hash__ and is assumed positive (the constructors raise        *)
(* otherwise).  A _Clause is the record of its two literal lists.  A       *)
(* Python list is a sequence.  The list that _merge builds from its set    *)
(* is modelled in cross-product order: Certificate defines __hash__ but    *)
(* no __eq__, so set membership is object identity, every merged           *)
(* certificate is a new object and every one of them is kept; only the     *)
(* iteration order of the set is abstracted.                               *)
(***************************************************************************)
EXTENDS Integers, Sequences, FiniteSets, TLC

\* ---- bounds of the model ----
NumVars == 2        \* variables are 1..NumVars
MaxWidth == 2       \* longest clause enumerated
MaxClauses == 3     \* longest clause list enumerated
MaxCeiling == 2     \* the batching ceiling (10**4 in the code) ranges over 1..MaxCeiling

VARIABLES
    clauses,        \* Instance.clauses / partial_clauses of self
    certificates,   \* Instance.certificates of self
    ceiling,        \* the ceiling of the batching fold
    instances,      \* local `instances` of Instance.solve
    new_instances,  \* local `new_instances` of Instance.solve
    i,              \* index of the next pair of the current tournament round
    pc,             \* position in the running operation
    ret,            \* value returned by Instance.solve ("none" while running)
    cert,           \* the Certificate that insert / insert_pair act on
    call,           \* the last insert / insert_pair call and its outcome
    A, B,           \* the receiver and the argument of Certificate.merge / apply
    out             \* the value returned by the operation applied to A and B

vars == <<clauses, certificates, ceiling, instances, new_instances, i, pc, ret,
          cert, call, A, B, out>>

solveVars == <<clauses, certificates, ceiling, instances, new_instances, i, ret>>
certVars == <<cert, call>>
pureVars == <<A, B, out>>

\* ---- solver_types.py ----
Variable == 1..NumVars
Literal == {l \in (-NumVars)..NumVars : l # 0}

Abs(x) == IF x < 0 THEN -x ELSE x

inverse(a) ==
    IF a = "true" THEN "false"
    ELSE IF a = "false" THEN "true"
    ELSE "unassigned"

\* ---- Certificate ----
\* Certificate.__init__: entries with the value unassigned are not stored.
Certificate(assignments) ==
    [v \in {k \in DOMAIN assignments : assignments[k] # "unassigned"} |-> assignments[v]]

\* insert_pair that stores the new value over the old one.
insert_pair_overwrite(self, variable, assignment) ==
    IF ~(variable > 0)
    THEN [assignments |-> self, raised |-> "invalid"]
    ELSE IF assignment = "unassigned"
    THEN [assignments |-> self, raised |-> "none"]
    ELSE [assignments |->
              [k \in (DOMAIN self) \cup {variable} |->
                  IF k = variable THEN assignment ELSE self[k]],
          raised |-> "none"]

\* Certificate.insert_pair: the mapping afterwards and the error raised, if any.
insert_pair(self, variable, assignment) ==
    IF ~(variable > 0)
    THEN [assignments |-> self, raised |-> "invalid"]
    ELSE IF assignment = "unassigned"
    THEN [assignments |-> self, raised |-> "none"]
    ELSE LET stored == IF variable \notin DOMAIN self
                       THEN self @@ (variable :> assignment)
                       ELSE self
         IN  IF assignment = stored[variable]
             THEN [assignments |-> stored, raised |-> "none"]
             ELSE [assignments |-> stored, raised |-> "conflict"]

\* Certificate.insert
insert(self, literal) ==
    IF literal = 0
    THEN [assignments |-> self, raised |-> "invalid"]
    ELSE insert_pair(self, Abs(literal), IF literal > 0 THEN "true" ELSE "false")

\* len(certificate)
CertLen(c) == Cardinality(DOMAIN c)

get(c, literal) ==
    IF Abs(literal) \in DOMAIN c
    THEN IF literal > 0 THEN c[Abs(literal)] ELSE inverse(c[Abs(literal)])
    ELSE "unassigned"

\* is_compatible without the comparison of the common variables.
is_compatible_always(self, other) == TRUE

is_compatible(self, other) ==
    \A variable \in (DOMAIN self) \cap (DOMAIN other) :
        get(self, variable) = get(other, variable)

\* merge that forgets assignments.update(other.assignments).
Update_self_only(self, other) == self

\* dict(self.assignments).update(other.assignments)
Update(self, other) ==
    [k \in (DOMAIN self) \cup (DOMAIN other) |->
        IF k \in DOMAIN other THEN other[k] ELSE self[k]]

\* The result of merge: None, or a Certificate.
None == [none |-> TRUE, assignments |-> <<>>]
Some(c) == [none |-> FALSE, assignments |-> c]

merge(self, other) ==
    IF is_compatible(self, other)
    THEN Some(Certificate(Update(self, other)))
    ELSE None

\* ---- _Clause ----
\* _Clause(literals, num_vars): the partial list is a copy of the full one.
Clause(literals) == [literals |-> literals, partial_literals |-> literals]

\* _Clause.solve: one single-literal certificate per literal of the partial list.
LiteralCertificate(literal) == insert(<<>>, literal).assignments

\* solve that stops after the first literal of the clause.
Clause_solve_first(clause) ==
    [k \in 1..(IF Len(clause.partial_literals) > 0 THEN 1 ELSE 0) |->
        LiteralCertificate(clause.partial_literals[k])]

Clause_solve(clause) ==
    [k \in 1..Len(clause.partial_literals) |->
        LiteralCertificate(clause.partial_literals[k])]

\* ---- Instance ----
\* Instance(clauses, partial_clauses, certificates)
Instance(cl, partial, certs) ==
    [clauses |-> cl, partial_clauses |-> partial, certificates |-> certs]

Max(S) == CHOOSE x \in S : \A y \in S : y <= x

\* Instance.recalculate_partial_size: k and m of (k, m, n); raises on an empty clause list.
SizeK(cl) == Max({Len(cl[k].literals) : k \in 1..Len(cl)})
Variables(cl) ==
    UNION {{Abs(cl[k].literals[j]) : j \in 1..Len(cl[k].literals)} : k \in 1..Len(cl)}
SizeM(cl) == Cardinality(Variables(cl))

\* 2**n for the exponents the solver meets (n >= 0: a certificate of an
\* instance binds only variables of that instance).
RECURSIVE Pow2(_)
Pow2(n) == IF n <= 0 THEN 1 ELSE 2 * Pow2(n - 1)

RECURSIVE SumSolutions(_, _)
SumSolutions(num_vars, certs) ==
    IF certs = <<>> THEN 0
    ELSE Pow2(num_vars - CertLen(Head(certs))) + SumSolutions(num_vars, Tail(certs))

\* Instance.num_solutions
num_solutions(cl, certs) == SumSolutions(SizeM(cl), certs)

\* The nested loops of Instance._merge: for each left, for each right.
RECURSIVE MergeRow(_, _)
MergeRow(left, rights) ==
    IF rights = <<>> THEN <<>>
    ELSE LET new_certificate == merge(left, Head(rights))
         IN  (IF new_certificate.none THEN <<>> ELSE <<new_certificate.assignments>>)
             \o MergeRow(left, Tail(rights))

RECURSIVE MergeAll(_, _)
MergeAll(lefts, rights) ==
    IF lefts = <<>> THEN <<>>
    ELSE MergeRow(Head(lefts), rights) \o MergeAll(Tail(lefts), rights)

\* Instance._merge: False (no certificate survives) or the merged Instance.
Failed == [failed |-> TRUE, instance |-> Instance(<<>>, <<>>, <<>>)]
Merged(inst) == [failed |-> FALSE, instance |-> inst]

Instance_merge(self, other) ==
    LET merged == MergeAll(self.certificates, other.certificates)
    IN  IF Len(merged) > 0
        THEN Merged(Instance(self.clauses \o other.clauses,
                             self.partial_clauses \o other.partial_clauses,
                             merged))
        ELSE Failed

\* _Clause.apply: True as soon as a literal is true under the certificate,
\* otherwise the Literals object of the unassigned literals (possibly empty).
\* `bool` tells a bool from a Literals object (isinstance(..., bool)).
Satisfied == [bool |-> TRUE, value |-> TRUE, literals |-> <<>>]
Falsified == [bool |-> TRUE, value |-> FALSE, literals |-> <<>>]
Narrowed(ls) == [bool |-> FALSE, value |-> FALSE, literals |-> ls]

Unassigned(ls, certificate) ==
    LET keep(l) == get(certificate, l) = "unassigned" IN SelectSeq(ls, keep)

Clause_apply(clause, certificate) ==
    IF \E k \in 1..Len(clause.partial_literals) :
           get(certificate, clause.partial_literals[k]) = "true"
    THEN Satisfied
    ELSE Narrowed(Unassigned(clause.partial_literals, certificate))

\* Instance.apply: False at the first clause whose apply() is the bool False,
\* ValueError at the first retained clause when size[1] <= 0 (the _Clause
\* constructor), otherwise the retained clauses, or True when there is none.
Instance_apply(cl, partial, certificate) ==
    LET results == [k \in 1..Len(partial) |-> Clause_apply(partial[k], certificate)]
        stops == {k \in 1..Len(partial) :
                    \/ results[k].bool /\ ~results[k].value
                    \/ ~results[k].bool /\ SizeM(cl) <= 0}
        first == CHOOSE k \in stops : \A j \in stops : k <= j
        keep(k) == ~results[k].bool
        kept == SelectSeq([k \in 1..Len(partial) |-> k], keep)
        partial_clauses == [n \in 1..Len(kept) |->
                               [literals |-> partial[kept[n]].literals,
                                partial_literals |-> results[kept[n]].literals]]
    IN  IF stops # {}
        THEN IF results[first].bool
             THEN [kind |-> "False", partial_clauses |-> <<>>, results |-> results]
             ELSE [kind |-> "ValueError", partial_clauses |-> <<>>, results |-> results]
        ELSE IF Len(partial_clauses) > 0
             THEN [kind |-> "list", partial_clauses |-> partial_clauses, results |-> results]
             ELSE [kind |-> "True", partial_clauses |-> <<>>, results |-> results]

\* ---- Instance.solve ----
\* The leaf of one clause: Instance([clause.copy()]) with the clause's own certificates.
Leaf(clause) == Instance(<<clause>>, <<clause>>, Clause_solve(clause))

Last(s) == s[Len(s)]
Front(s) == SubSeq(s, 1, Len(s) - 1)

\* The ceiling test with <= in place of <.
UnderCeiling_inclusive(accumulator, limit) == Len(accumulator.certificates) <= limit

\* The test that lets the fold merge into the current accumulator.
UnderCeiling(accumulator, limit) == Len(accumulator.certificates) < limit

\* A round that drops the odd sub-instance.
CarryOdd_dropped(insts, news) == news

\* The odd sub-instance of a round is carried forward unmerged.
CarryOdd(insts, news) ==
    IF Len(insts) % 2 = 1 THEN Append(news, Last(insts)) ELSE news

\* ---- inputs ----
\* Literal lists in non-decreasing order, as generate_random emits them
\* (line 254), with repeated and complementary literals and the empty list.
LiteralLists ==
    {ls \in UNION {[1..n -> Literal] : n \in 0..MaxWidth} :
        \A k \in 1..(Len(ls) - 1) : ls[k] <= ls[k + 1]}
ClauseLists == UNION {[1..n -> {Clause(ls) : ls \in LiteralLists}] : n \in 1..MaxClauses}
\* The list handed to the constructor: none, or one holding an empty certificate.
InitialCertificates == {<<>>, << <<>> >>}

Idle == "idle"
NoCall == [op |-> "none", variable |-> 0, assignment |-> "unassigned", raised |-> "none"]

SolveInit ==
    /\ clauses \in ClauseLists
    /\ certificates \in InitialCertificates
    /\ ceiling \in 1..MaxCeiling
    /\ instances = <<>>
    /\ new_instances = <<>>
    /\ i = 0
    /\ pc = "leaves"
    /\ ret = "none"
    /\ cert = <<>> /\ call = NoCall
    /\ A = <<>> /\ B = <<>> /\ out = Idle

\* lines 317-321: one leaf per clause, the last one seeds the first accumulator
Leaves ==
    /\ pc = "leaves"
    /\ LET leaves == [k \in 1..Len(clauses) |-> Leaf(clauses[k])]
       IN  /\ instances' = Front(leaves)
           /\ new_instances' = <<Last(leaves)>>
    /\ pc' = "fold"
    /\ UNCHANGED <<clauses, certificates, ceiling, i, ret, certVars, pureVars>>

\* lines 322-330: one iteration of the batching fold
Fold ==
    /\ pc = "fold"
    /\ instances # <<>>
    /\ IF UnderCeiling(Last(new_instances), ceiling)
       THEN LET new_instance == Instance_merge(Last(new_instances), Last(instances))
            IN  IF ~new_instance.failed
                THEN /\ new_instances' = Append(Front(new_instances), new_instance.instance)
                     /\ instances' = Front(instances)
                     /\ UNCHANGED <<pc, ret>>
                ELSE /\ ret' = "false"
                     /\ pc' = "done"
                     /\ instances' = Front(instances)
                     /\ UNCHANGED new_instances
       ELSE /\ new_instances' = Append(new_instances, Last(instances))
            /\ instances' = Front(instances)
            /\ UNCHANGED <<pc, ret>>
    /\ UNCHANGED <<clauses, certificates, ceiling, i, certVars, pureVars>>

\* line 331
FoldEnd ==
    /\ pc = "fold"
    /\ instances = <<>>
    /\ instances' = new_instances
    /\ pc' = "round"
    /\ UNCHANGED <<clauses, certificates, ceiling, new_instances, i, ret, certVars, pureVars>>

\* lines 333-338: a tournament round starts
RoundBegin ==
    /\ pc = "round"
    /\ Len(instances) > 1
    /\ new_instances' = <<>>
    /\ i' = 0
    /\ pc' = "pairs"
    /\ UNCHANGED <<clauses, certificates, ceiling, instances, ret, certVars, pureVars>>

\* lines 339-344: the pair (2i, 2i+1) of the round
RoundMerge ==
    /\ pc = "pairs"
    /\ i < Len(instances) \div 2
    /\ LET new_instance == Instance_merge(instances[2 * i + 1], instances[2 * i + 2])
       IN  IF ~new_instance.failed
           THEN /\ new_instances' = Append(new_instances, new_instance.instance)
                /\ i' = i + 1
                /\ UNCHANGED <<pc, ret>>
           ELSE /\ ret' = "false"
                /\ pc' = "done"
                /\ UNCHANGED <<new_instances, i>>
    /\ UNCHANGED <<clauses, certificates, ceiling, instances, certVars, pureVars>>

\* lines 345-347: the round ends
RoundEnd ==
    /\ pc = "pairs"
    /\ i = Len(instances) \div 2
    /\ instances' = CarryOdd(instances, new_instances)
    /\ new_instances' = CarryOdd(instances, new_instances)
    /\ pc' = "round"
    /\ UNCHANGED <<clauses, certificates, ceiling, i, ret, certVars, pureVars>>

\* lines 349-350
Return ==
    /\ pc = "round"
    /\ Len(instances) <= 1
    /\ certificates' = instances[1].certificates
    /\ ret' = IF Len(instances[1].certificates) > 0 THEN "true" ELSE "false"
    /\ pc' = "done"
    /\ UNCHANGED <<clauses, ceiling, instances, new_instances, i, certVars, pureVars>>

SolveNext == Leaves \/ Fold \/ FoldEnd \/ RoundBegin \/ RoundMerge \/ RoundEnd \/ Return

Spec == SolveInit /\ [][SolveNext]_vars


\* ---- Certificate.insert / insert_pair on one certificate ----

CertInit ==
    /\ cert = <<>>
    /\ call = NoCall
    /\ pc = "certificate"
    /\ clauses = <<>> /\ certificates = <<>> /\ ceiling = 0
    /\ instances = <<>> /\ new_instances = <<>> /\ i = 0 /\ ret = "none"
    /\ A = <<>> /\ B = <<>> /\ out = Idle

Insert ==
    /\ pc = "certificate"
    /\ \E literal \in (-NumVars)..NumVars :
        LET r == insert(cert, literal)
        IN  /\ cert' = r.assignments
            /\ call' = [op |-> "insert",
                        variable |-> Abs(literal),
                        assignment |-> IF literal > 0 THEN "true"
                                       ELSE IF literal < 0 THEN "false"
                                       ELSE "unassigned",
                        raised |-> r.raised]
    /\ UNCHANGED <<pc, solveVars, pureVars>>

InsertPair ==
    /\ pc = "certificate"
    /\ \E variable \in (-1)..NumVars, assignment \in {"true", "false", "unassigned"} :
        LET r == insert_pair(cert, variable, assignment)
        IN  /\ cert' = r.assignments
            /\ call' = [op |-> "insert_pair", variable |-> variable,
                        assignment |-> assignment, raised |-> r.raised]
    /\ UNCHANGED <<pc, solveVars, pureVars>>

CertNext == Insert \/ InsertPair

CertSpec == CertInit /\ [][CertNext]_vars

\* ---- Certificate.merge and Instance.apply on enumerated arguments ----
\* Every Certificate over the variables: a mapping of some of them to true/false.
Certificates == UNION {[D -> {"true", "false"}] : D \in SUBSET Variable}

MergeInit ==
    /\ A \in Certificates
    /\ B \in Certificates
    /\ out = Idle
    /\ pc = "merge"
    /\ clauses = <<>> /\ certificates = <<>> /\ ceiling = 0
    /\ instances = <<>> /\ new_instances = <<>> /\ i = 0 /\ ret = "none"
    /\ cert = <<>> /\ call = NoCall

Merge ==
    /\ pc = "merge"
    /\ out' = merge(A, B)
    /\ pc' = "merged"
    /\ UNCHANGED <<A, B, solveVars, certVars>>

MergeNext == Merge

MergeSpec == MergeInit /\ [][MergeNext]_vars

ApplyInit ==
    /\ clauses \in ClauseLists
    /\ B \in Certificates
    /\ A = <<>>
    /\ out = Idle
    /\ pc = "apply"
    /\ certificates = <<>> /\ ceiling = 0
    /\ instances = <<>> /\ new_instances = <<>> /\ i = 0 /\ ret = "none"
    /\ cert = <<>> /\ call = NoCall

Apply ==
    /\ pc = "apply"
    /\ out' = Instance_apply(clauses, clauses, B)
    /\ pc' = "applied"
    /\ UNCHANGED <<A, B, solveVars, certVars>>

ApplyNext == Apply

ApplySpec == ApplyInit /\ [][ApplyNext]_vars

\* solve() on an instance built by Instance(clauses), whose certificate list
\* starts empty, at the largest ceiling.  The solver is a sequential program:
\* a step that can be taken is taken.
FairInit == SolveInit /\ certificates = <<>> /\ ceiling = MaxCeiling

FairSpec == FairInit /\ [][SolveNext]_vars /\ WF_vars(SolveNext)

\* ---- notions the properties are stated in ----
Indices(s) == 1..Len(s)

\* The total assignments of the instance's variables.
TotalAssignments(cl) == [Variables(cl) -> {"true", "false"}]

\* A clause is true under an assignment when one of its literals is.
ClauseTrue(clause, t) ==
    \E k \in Indices(clause.literals) : get(t, clause.literals[k]) = "true"

Satisfying(cl) == {t \in TotalAssignments(cl) : \A k \in Indices(cl) : ClauseTrue(cl[k], t)}

\* A total assignment extends a certificate when it gives the certificate's values.
Extends(t, c) == \A v \in DOMAIN c : v \in DOMAIN t /\ t[v] = c[v]

\* Two certificates agree on every variable both bind.
Agree(a, b) == \A v \in (DOMAIN a) \cap (DOMAIN b) : a[v] = b[v]

\* The number of occurrences of a clause in a clause list.
Count(cl, clause) == Cardinality({k \in Indices(cl) : cl[k] = clause})
SameClauses(cl1, cl2) ==
    /\ Len(cl1) = Len(cl2)
    /\ \A k \in Indices(cl2) : Count(cl1, cl2[k]) = Count(cl2, cl2[k])

NoDuplicates(certs) ==
    \A j, k \in Indices(certs) : j # k => certs[j] # certs[k]

\* A sub-instance that came out of _merge holds more than one clause.
FromMerge(inst) == Len(inst.clauses) > 1

\* C1: solve() returns True exactly when some total assignment of the
\* instance's variables satisfies every clause; an empty clause anywhere in
\* the list makes it return False.
C1_SolveDecides ==
    pc = "done" =>
        /\ (ret = "true") <=> (Satisfying(clauses) # {})
        /\ (\E k \in Indices(clauses) : clauses[k].literals = <<>>) => ret = "false"

C1_Witness ==
    /\ pc = "done"
    /\ ret = "false"
    /\ Len(clauses) = 3
    /\ clauses[2].literals = <<>>
    /\ clauses[1].literals # <<>>
    /\ clauses[3].literals # <<>>

\* C2: after solve() returns True the certificate list covers the solution
\* set exactly: each certificate makes a literal of every clause true, every
\* total assignment extending a certificate satisfies every clause, and every
\* satisfying total assignment extends some certificate.
C2_ExactCover ==
    (pc = "done" /\ ret = "true") =>
        /\ \A n \in Indices(certificates) : \A k \in Indices(clauses) :
               ClauseTrue(clauses[k], certificates[n])
        /\ \A t \in TotalAssignments(clauses) :
               (\E n \in Indices(certificates) : Extends(t, certificates[n]))
                   <=> t \in Satisfying(clauses)

C2_Witness ==
    /\ pc = "done"
    /\ ret = "true"
    /\ Len(clauses) >= 2
    /\ Len(certificates) >= 2
    /\ Satisfying(clauses) # TotalAssignments(clauses)

\* C3: after solve() returns True, num_solutions is the number of total
\* assignments of the instance's variables that satisfy every clause.
C3_CountsSolutions ==
    (pc = "done" /\ ret = "true") =>
        num_solutions(clauses, certificates) = Cardinality(Satisfying(clauses))

\* C4: A.merge(B) returns a certificate exactly when A and B agree on every
\* variable both bind (which is what is_compatible reports); the certificate
\* binds the union of their variables and gives each the value its owner gives.
C4_MergeIsUnion ==
    pc = "merged" =>
        /\ ~out.none <=> Agree(A, B)
        /\ is_compatible(A, B) <=> Agree(A, B)
        /\ ~out.none =>
            /\ DOMAIN out.assignments = (DOMAIN A) \cup (DOMAIN B)
            /\ \A v \in DOMAIN A : out.assignments[v] = A[v]
            /\ \A v \in DOMAIN B : out.assignments[v] = B[v]

C4_Witness ==
    /\ pc = "merged"
    /\ ~out.none
    /\ (DOMAIN A) \cap (DOMAIN B) # {}
    /\ (DOMAIN B) \ (DOMAIN A) # {}

\* C5: _Clause.apply has three outcomes: the satisfied sentinel when a literal
\* of the partial list is true, the falsified sentinel (the bool False) when
\* every literal of the partial list is false, otherwise the non-empty list of
\* the unassigned literals; and Instance.apply returns False when some clause
\* has all its literals false under the certificate.
AllFalse(clause, certificate) ==
    \A k \in Indices(clause.partial_literals) :
        get(certificate, clause.partial_literals[k]) = "false"
SomeTrue(clause, certificate) ==
    \E k \in Indices(clause.partial_literals) :
        get(certificate, clause.partial_literals[k]) = "true"

C5_ApplyOutcomes ==
    pc = "applied" =>
        /\ \A k \in Indices(clauses) :
            /\ SomeTrue(clauses[k], B) => out.results[k] = Satisfied
            /\ AllFalse(clauses[k], B) => out.results[k] = Falsified
            /\ (~SomeTrue(clauses[k], B) /\ ~AllFalse(clauses[k], B)) =>
                  /\ ~out.results[k].bool
                  /\ out.results[k].literals # <<>>
                  /\ out.results[k].literals = Unassigned(clauses[k].partial_literals, B)
        /\ (\E k \in Indices(clauses) : AllFalse(clauses[k], B)) => out.kind = "False"

\* C6: whenever solve() returns False the certificate list is empty afterwards
\* and num_solutions is 0, whatever the list held before the call.
C6_FalseLeavesNothing ==
    (pc = "done" /\ ret = "false") =>
        /\ certificates = <<>>
        /\ num_solutions(clauses, certificates) = 0

\* C7: no certificate list produced by _merge, and so no final list of
\* solve(), holds two certificates with identical mappings.
C7_NoDuplicateCertificates ==
    /\ \A k \in Indices(instances) :
           FromMerge(instances[k]) => NoDuplicates(instances[k].certificates)
    /\ \A k \in Indices(new_instances) :
           FromMerge(new_instances[k]) => NoDuplicates(new_instances[k].certificates)
    /\ (pc = "done" /\ ret = "true") => NoDuplicates(certificates)

\* C8 as stated: during the fold and at its end every accumulator produced by
\* at least one merge holds fewer than T certificates.
C8_AccumulatorsUnderCeiling ==
    pc = "fold" =>
        \A k \in Indices(new_instances) :
            FromMerge(new_instances[k]) => Len(new_instances[k].certificates) < ceiling

\* C8 amended: the fold merges into the current accumulator exactly when that
\* accumulator holds fewer than T certificates before the merge and starts a
\* new accumulator otherwise; so every accumulator but the current one holds
\* at least T certificates, and one produced by a merge holds at most
\* (T - 1) * k certificates, k the widest clause of the instance.
C8_FoldStep ==
    (pc = "fold" /\ instances # <<>>) =>
        IF Len(Last(new_instances).certificates) < ceiling
        THEN \/ /\ pc' = "fold"
                /\ Len(new_instances') = Len(new_instances)
                /\ Front(new_instances') = Front(new_instances)
                /\ Last(new_instances').clauses =
                       Last(new_instances).clauses \o Last(instances).clauses
             \/ /\ pc' = "done"
                /\ ret' = "false"
        ELSE /\ pc' = "fold"
             /\ new_instances' = Append(new_instances, Last(instances))

C8_FoldInv ==
    pc = "fold" =>
        /\ \A k \in 1..(Len(new_instances) - 1) :
               Len(new_instances[k].certificates) >= ceiling
        /\ \A k \in Indices(new_instances) :
               FromMerge(new_instances[k]) =>
                   Len(new_instances[k].certificates) <= (ceiling - 1) * SizeK(clauses)

C8_CeilingCheckedBeforeMerge == [][C8_FoldStep]_vars /\ []C8_FoldInv

C8_Witness ==
    /\ pc = "fold"
    /\ Len(new_instances) >= 2
    /\ FromMerge(new_instances[1])
    /\ Len(new_instances[1].certificates) >= ceiling

\* C9: solve() terminates; a tournament round over L sub-instances with no
\* failed merge leaves ceil(L/2) of them; a merge that yields no certificate
\* makes solve() return False in that very step and nothing runs afterwards;
\* otherwise the loop ends with one sub-instance that holds every clause of
\* the instance exactly once.
C9_RoundStep ==
    /\ (pc = "pairs" /\ pc' = "round") =>
           Len(instances') = (Len(instances) + 1) \div 2
    /\ (pc = "pairs" /\ i < Len(instances) \div 2
            /\ MergeAll(instances[2 * i + 1].certificates,
                        instances[2 * i + 2].certificates) = <<>>) =>
           (pc' = "done" /\ ret' = "false")
    /\ (pc = "fold" /\ instances # <<>>
            /\ Len(Last(new_instances).certificates) < ceiling
            /\ MergeAll(Last(new_instances).certificates,
                        Last(instances).certificates) = <<>>) =>
           (pc' = "done" /\ ret' = "false")
    /\ pc # "done"

C9_LoopEnd ==
    (pc = "round" /\ Len(instances) <= 1) =>
        /\ Len(instances) = 1
        /\ SameClauses(instances[1].clauses, clauses)

C9_TournamentTerminates ==
    /\ <>(pc = "done")
    /\ [][C9_RoundStep]_vars
    /\ []C9_LoopEnd

\* A round has merged the first pair of three sub-instances and carried the third.
C9_Witness ==
    /\ pc = "round"
    /\ i = 1
    /\ Len(instances) = 2
    /\ FromMerge(instances[1])
    /\ ~FromMerge(instances[2])

\* C10: under insert / insert_pair a bound variable keeps its value and stays
\* bound; re-inserting its value succeeds and changes nothing, the opposite
\* value raises the conflict error and changes nothing, unassigned is a
\* no-op, and literal 0 or a variable <= 0 raises and changes nothing.
C10_Step ==
    /\ \A v \in DOMAIN cert : v \in DOMAIN cert' /\ cert'[v] = cert[v]
    /\ (call'.op = "insert" /\ call'.variable = 0) =>
           (call'.raised = "invalid" /\ cert' = cert)
    /\ (call'.op = "insert_pair" /\ call'.variable <= 0) =>
           (call'.raised = "invalid" /\ cert' = cert)
    /\ (call'.variable > 0 /\ call'.assignment = "unassigned") =>
           (call'.raised = "none" /\ cert' = cert)
    /\ (call'.variable \in DOMAIN cert /\ call'.assignment = cert[call'.variable]) =>
           (call'.raised = "none" /\ cert' = cert)
    /\ (call'.variable \in DOMAIN cert /\ call'.assignment = inverse(cert[call'.variable])) =>
           (call'.raised = "conflict" /\ cert' = cert)

C10_InsertIsAppendOnly == [][C10_Step]_vars

C10_Witness ==
    /\ pc = "certificate"
    /\ call.raised = "conflict"
    /\ Cardinality(DOMAIN cert) >= 2

====
